---- MODULE Spec2Model ----
(***************************************************************************)
(* Verification model of the refactoring catalogue.  Every example file    *)
(* is a self-contained program, so every example gets its own variables,   *)
(* its own actions and its own specification; the variables of the other   *)
(* examples stay at their initial value.                                    *)
(***************************************************************************)
EXTENDS Integers, Sequences, FiniteSets, TLC

VARIABLES
  list, stackRet, stackOp, pushed, live,   \* refused-bequest/replace-with-delegation.ts
  square, squareOp,                        \* Extract Superclass example (RefactoredSquare)
  cust, custOp, custThrew,                 \* Encapsulate Field example (RefactoredCustomer)
  \* temporary-fields/introduce-null-object.ts (RefactoredOrder):
  \* customer is the order's private field, orderArg the constructor's argument
  customer, orderArg, orderOp, orderRet, orderOut, orderErr,
  \* temporary-fields/replace-with-method-object.ts: the Order and the
  \* RefactoredOrder built from the same data, and what calculatePrice returned
  priceOrder, priceRefactored, priceRet, priceRefactoredRet,
  \* switch-statements/move-method.ts: the country of the user, the private
  \* total of the Order and of the RefactoredOrder, and the last call of the
  \* two applyRegionalDiscounts (argument and result)
  country, moveTotal, moveRefactoredTotal, moveCall, moveRefactoredCall,
  \* shotgun-surgery/move-method.ts: UserRegistration.users and
  \* NewsletterSubscription.subscribers, the same of the Improved classes, and
  \* the last call made on both (method, email, the two results)
  users, subscribers, usersImproved, subscribersImproved, mailCall,
  \* shotgun-surgery/move-field.ts: the OrderService, the Address objects
  \* allocated so far, the RefactoredOrderService (its parts hold references
  \* into addrHeap), the data of the most recent construction or update, and
  \* the last call made on both services
  addrService, addrHeap, addrRefactored, addrLast, addrCall,
  \* the smell detection engine: the MethodEntity of the Program Model under
  \* analysis, the stage of the run, and the Findings of the run
  chainMethod, chainPhase, chainFindings,
  \* one analysis of the engine: the program and the suggester table handed
  \* over, the Program Model built so far, the stage, each detector's position
  \* in the model, the records collected in the order they arrived, the
  \* RefactoringPlans, the fatal error, what was emitted, the number of the
  \* run over this model and the Finding set of the run before
  engInput, engTable, engModel, engPhase, engCursor, engRecords, engPlans,
  engError, engOutput, engRun, engPrevious

stackVars == <<list, stackRet, stackOp, pushed, live>>
squareVars == <<square, squareOp>>
custVars == <<cust, custOp, custThrew>>
orderVars == <<customer, orderArg, orderOp, orderRet, orderOut, orderErr>>
priceVars == <<priceOrder, priceRefactored, priceRet, priceRefactoredRet>>
moveVars == <<country, moveTotal, moveRefactoredTotal, moveCall, moveRefactoredCall>>
mailVars == <<users, subscribers, usersImproved, subscribersImproved, mailCall>>
addrVars == <<addrService, addrHeap, addrRefactored, addrLast, addrCall>>
chainVars == <<chainMethod, chainPhase, chainFindings>>
engVars ==
  <<engInput, engTable, engModel, engPhase, engCursor, engRecords, engPlans,
    engError, engOutput, engRun, engPrevious>>
vars ==
  <<stackVars, squareVars, custVars, orderVars, priceVars, moveVars, mailVars,
    addrVars, chainVars, engVars>>

\* the variables of the other examples, for each example
notStack == <<squareVars, custVars, orderVars, priceVars, moveVars, mailVars, addrVars, chainVars,
    engVars>>
notSquare == <<stackVars, custVars, orderVars, priceVars, moveVars, mailVars, addrVars, chainVars,
    engVars>>
notCust == <<stackVars, squareVars, orderVars, priceVars, moveVars, mailVars, addrVars, chainVars,
    engVars>>
notOrder == <<stackVars, squareVars, custVars, priceVars, moveVars, mailVars, addrVars, chainVars,
    engVars>>
notPrice == <<stackVars, squareVars, custVars, orderVars, moveVars, mailVars, addrVars, chainVars,
    engVars>>
notMove == <<stackVars, squareVars, custVars, orderVars, priceVars, mailVars, addrVars, chainVars,
    engVars>>
notMail == <<stackVars, squareVars, custVars, orderVars, priceVars, moveVars, addrVars, chainVars,
    engVars>>
notAddr ==
  <<stackVars, squareVars, custVars, orderVars, priceVars, moveVars, mailVars,
    chainVars, engVars>>
notChain ==
  <<stackVars, squareVars, custVars, orderVars, priceVars, moveVars, mailVars,
    addrVars, engVars>>
notEng ==
  <<stackVars, squareVars, custVars, orderVars, priceVars, moveVars, mailVars,
    addrVars, chainVars>>

\* JavaScript's undefined.  Values of different JavaScript types are records
\* with different fields, so that any two of them can be compared.
Undefined == [undefined |-> TRUE]
Number(n) == [number |-> n]
Boolean(b) == [boolean |-> b]
\* a string built by a template is the sequence of its pieces; an array is a
\* sequence of elements
String(pieces) == [string |-> pieces]
Array(elements) == [array |-> elements]
Null == [null |-> TRUE]

Max(S) == CHOOSE x \in S : \A y \in S : y <= x

(***************************************************************************)
(* RefactoredArrayList<T>: items is a JavaScript array, modelled as a      *)
(* sequence; JavaScript indexes from 0, sequences from 1.                   *)
(***************************************************************************)
ArrayAdd(items, item) == Append(items, item)

\* splice(index, 1)[0]: a negative index counts from the end, an index past
\* the end removes nothing and yields undefined
SpliceStart(items, index) ==
  IF index < 0 THEN (IF Len(items) + index < 0 THEN 0 ELSE Len(items) + index)
  ELSE (IF index > Len(items) THEN Len(items) ELSE index)

ArrayRemoveFirst(items, index) ==
  IF Len(items) = 0 THEN [items |-> items, ret |-> Undefined]
  ELSE [items |-> Tail(items), ret |-> Head(items)]

ArrayRemove(items, index) ==
  LET s == SpliceStart(items, index) IN
  IF s >= Len(items) THEN [items |-> items, ret |-> Undefined]
  ELSE [items |-> SubSeq(items, 1, s) \o SubSeq(items, s + 2, Len(items)),
        ret |-> items[s + 1]]

ArrayGet(items, index) ==
  IF index \in 0..(Len(items) - 1) THEN items[index + 1] ELSE Undefined

ArraySize(items) == Len(items)

ArrayIsEmpty(items) == Len(items) = 0

ArrayClear(items) == <<>>

(***************************************************************************)
(* RefactoredStack<T>.  list is the private RefactoredArrayList.  Every    *)
(* push is a distinct event: the pushed element carries the number of its  *)
(* push (id) besides its value, so that "the most recently pushed element" *)
(* is defined also when equal values are pushed twice.  pushed (all        *)
(* elements pushed so far) and live (ids pushed and neither popped nor     *)
(* cleared) are history variables; they are updated from what the code     *)
(* returns, never from what it should return.                              *)
(***************************************************************************)
MaxPush == 4
Values == {"a", "b"}

StackInit ==
  /\ list = <<>>
  /\ stackRet = Undefined
  /\ stackOp = "new"
  /\ pushed = <<>>
  /\ live = {}

push(item) ==
  /\ Len(pushed) < MaxPush
  /\ LET e == [id |-> Len(pushed) + 1, val |-> item] IN
       /\ list' = ArrayAdd(list, e)
       /\ pushed' = Append(pushed, e)
       /\ live' = live \cup {e.id}
  /\ stackRet' = Undefined
  /\ stackOp' = "push"
  /\ UNCHANGED notStack

pop ==
  /\ LET r == IF ArrayIsEmpty(list) THEN [items |-> list, ret |-> Undefined]
              ELSE ArrayRemove(list, ArraySize(list) - 1) IN
       /\ list' = r.items
       /\ stackRet' = r.ret
       /\ live' = IF r.ret = Undefined THEN live ELSE live \ {r.ret.id}
  /\ stackOp' = "pop"
  /\ UNCHANGED <<pushed, notStack>>

peek ==
  /\ stackRet' = IF ArrayIsEmpty(list) THEN Undefined
                 ELSE ArrayGet(list, ArraySize(list) - 1)
  /\ stackOp' = "peek"
  /\ UNCHANGED <<list, pushed, live, notStack>>

size ==
  /\ stackRet' = Number(ArraySize(list))
  /\ stackOp' = "size"
  /\ UNCHANGED <<list, pushed, live, notStack>>

isEmpty ==
  /\ stackRet' = Boolean(ArrayIsEmpty(list))
  /\ stackOp' = "isEmpty"
  /\ UNCHANGED <<list, pushed, live, notStack>>

clear ==
  /\ list' = ArrayClear(list)
  /\ live' = {}
  /\ stackRet' = Undefined
  /\ stackOp' = "clear"
  /\ UNCHANGED <<pushed, notStack>>

StackNext ==
  \/ \E item \in Values : push(item)
  \/ pop
  \/ peek
  \/ size
  \/ isEmpty
  \/ clear

\* the element that was pushed last among those neither popped nor cleared
TopLive == pushed[Max(live)]

\* the list holds exactly the live elements, oldest first
StackInv ==
  /\ Len(list) = Cardinality(live)
  /\ \A i \in 1..Len(list) : list[i] \in {pushed[k] : k \in live}
  /\ \A i \in 1..Len(list), j \in 1..Len(list) : i < j => list[i].id < list[j].id

StackStep ==
  /\ stackOp' = "pop" =>
       IF live = {} THEN stackRet' = Undefined /\ live' = live
       ELSE stackRet' = TopLive /\ live' = live \ {Max(live)}
  /\ stackOp' = "peek" =>
       /\ stackRet' = IF live = {} THEN Undefined ELSE TopLive
       /\ live' = live
  /\ stackOp' = "size" => stackRet' = Number(Cardinality(live)) /\ live' = live
  /\ stackOp' = "isEmpty" => stackRet' = Boolean(live = {}) /\ live' = live
  /\ stackOp' # "clear" =>
       \A i \in 1..(Len(list) - 1) : Len(list') >= i /\ list'[i] = list[i]

\* C1: RefactoredStack is LIFO: pop removes and returns the most recently
\* pushed element not yet popped or cleared, peek returns it without removing
\* it, size is the number of such elements, and no operation but clear
\* touches an element below the top.
StackLIFO == []StackInv /\ [][StackStep]_vars

\* a pop that returns an element after an earlier pop or clear, with elements
\* still below it
StackLIFOWitness ==
  /\ stackOp = "pop"
  /\ stackRet # Undefined
  /\ live # {}
  /\ Cardinality(live) + 1 < Len(pushed)

(***************************************************************************)
(* Shape / RefactoredSquare.  A JavaScript number is an integer of a       *)
(* bounded range or NaN; a product with NaN is NaN.                        *)
(***************************************************************************)
MaxSide == 6
MaxAbs == 200
\* NaN is coded as a number outside the modelled range
NaN == 0 - (MaxAbs + 1)
Numbers == (-MaxSide..MaxSide) \cup {NaN}

Times(a, b) == IF a = NaN \/ b = NaN THEN NaN ELSE a * b

InRange(x) == x = NaN \/ (x >= -MaxAbs /\ x <= MaxAbs)

Shape(width, height) == [width |-> width, height |-> height]

getWidth(s) == s.width
getHeight(s) == s.height
getSide(s) == s.width

SetSideWidthOnly(s, side) == [s EXCEPT !.width = side]

setSide(s, side) == [s EXCEPT !.width = side, !.height = side]

scale(s, factor) == setSide(s, Times(s.width, factor))

SquareInit ==
  /\ square = Undefined
  /\ squareOp = "none"

SquareNew ==
  /\ square = Undefined
  /\ \E side \in Numbers : square' = Shape(side, side)
  /\ squareOp' = "new"
  /\ UNCHANGED notSquare

SquareSetSide ==
  /\ square # Undefined
  /\ \E side \in Numbers : square' = setSide(square, side)
  /\ squareOp' = "setSide"
  /\ UNCHANGED notSquare

SquareScale ==
  /\ square # Undefined
  /\ \E factor \in Numbers :
       /\ InRange(Times(square.width, factor))
       /\ square' = scale(square, factor)
  /\ squareOp' = "scale"
  /\ UNCHANGED notSquare

SquareNext == SquareNew \/ SquareSetSide \/ SquareScale

Strings(alphabet, maxLen) == UNION {[1..n -> alphabet] : n \in 0..maxLen}

Repeat(c, n) == [i \in 1..n |-> c]

IsSpace(c) == c = " "

Digits == {"0", "1", "2", "3", "4", "5", "6", "7", "8", "9"}

\* String.prototype.trim
RECURSIVE TrimStart(_)
TrimStart(s) ==
  IF Len(s) > 0 /\ IsSpace(Head(s)) THEN TrimStart(Tail(s)) ELSE s

RECURSIVE TrimEnd(_)
TrimEnd(s) ==
  IF Len(s) > 0 /\ IsSpace(s[Len(s)]) THEN TrimEnd(SubSeq(s, 1, Len(s) - 1)) ELSE s

Trim(s) == TrimEnd(TrimStart(s))

\* String.prototype.toLowerCase, on the letters of the modelled alphabets
LowerChar(c) == CASE c = "A" -> "a" [] c = "B" -> "b" [] OTHER -> c

ToLowerCase(s) == [i \in 1..Len(s) |-> LowerChar(s[i])]

\* [^\s@]+ on all of s
NoSpaceNoAt(s) == Len(s) > 0 /\ \A i \in 1..Len(s) : ~IsSpace(s[i]) /\ s[i] # "@"

\* /^[^\s@]+@[^\s@]+\.[^\s@]+$/.test(s)
emailRegex(s) ==
  \E i \in 1..Len(s), j \in 1..Len(s) :
    /\ i < j
    /\ s[i] = "@"
    /\ s[j] = "."
    /\ NoSpaceNoAt(SubSeq(s, 1, i - 1))
    /\ NoSpaceNoAt(SubSeq(s, i + 1, j - 1))
    /\ NoSpaceNoAt(SubSeq(s, j + 1, Len(s)))

\* /^\d{3}-\d{4}$/.test(s)
phoneRegex(s) ==
  /\ Len(s) = 8
  /\ \A i \in {1, 2, 3, 5, 6, 7, 8} : s[i] \in Digits
  /\ s[4] = "-"

\* number comparison: every comparison with NaN is false
Lt(a, b) == a # NaN /\ b # NaN /\ a < b
Gt(a, b) == a # NaN /\ b # NaN /\ a > b
Le(a, b) == a # NaN /\ b # NaN /\ a <= b

(***************************************************************************)
(* RefactoredCustomer.  A setter yields the value it stores, or Throw.     *)
(***************************************************************************)
MaxNameLen == 2
MaxEmailLen == 5
MaxPhoneLen == 8

NameInputs == Strings({"a", " "}, MaxNameLen) \cup {Repeat("a", 51)}
EmailInputs ==
  Strings({"B", "@", "."}, MaxEmailLen) \cup {<<"B", " ", "@", "B", ".", "B">>}
PhoneInputs ==
  Strings({"1", "-"}, MaxPhoneLen) \cup {<<"5", "5", "5", "-", "9", "8", "7", "a">>}
AgeInputs == {-5, 0, 150, 151, NaN}
CreditScoreInputs == {299, 300, 850, 1000, NaN}

\* what a setter does: it throws, or it stores a value
Throw == [threw |-> TRUE]
Store(v) == [threw |-> FALSE, value |-> v]

setName(value) ==
  IF Len(value) = 0 \/ Len(Trim(value)) = 0 THEN Throw
  ELSE IF Len(value) > 50 THEN Throw
  ELSE Store(Trim(value))

setEmail(value) ==
  IF ~emailRegex(value) THEN Throw ELSE Store(ToLowerCase(value))

setAge(value) ==
  IF Lt(value, 0) \/ Gt(value, 150) THEN Throw ELSE Store(value)

setPhoneNumber(value) == IF ~phoneRegex(value) THEN Throw ELSE Store(value)

setCreditScore(value) ==
  IF Lt(value, 300) \/ Gt(value, 850) THEN Throw ELSE Store(value)

CustInit ==
  /\ cust = Undefined
  /\ custOp = "none"
  /\ custThrew = FALSE

\* the constructor threw: no object
NewThrown ==
  /\ cust' = Undefined
  /\ custThrew' = TRUE

\* constructor: the six setters in order, the first throw ends it
CustNew ==
  /\ cust = Undefined
  /\ \E fn \in NameInputs :
       IF setName(fn).threw THEN NewThrown ELSE
       \E ln \in NameInputs :
       IF setName(ln).threw THEN NewThrown ELSE
       \E em \in EmailInputs :
       IF setEmail(em).threw THEN NewThrown ELSE
       \E ag \in AgeInputs :
       IF setAge(ag).threw THEN NewThrown ELSE
       \E ph \in PhoneInputs :
       IF setPhoneNumber(ph).threw THEN NewThrown ELSE
       \E cs \in CreditScoreInputs :
       IF setCreditScore(cs).threw THEN NewThrown ELSE
         /\ cust' = [firstName |-> setName(fn).value,
                     lastName |-> setName(ln).value,
                     email |-> setEmail(em).value,
                     age |-> setAge(ag).value,
                     phoneNumber |-> setPhoneNumber(ph).value,
                     creditScore |-> setCreditScore(cs).value]
         /\ custThrew' = FALSE
  /\ custOp' = "new"
  /\ UNCHANGED notCust

\* a setter call on a constructed customer: a throw leaves the object as it is
CustSet(field, r) ==
  /\ IF r.threw
       THEN cust' = cust /\ custThrew' = TRUE
       ELSE cust' = [cust EXCEPT ![field] = r.value] /\ custThrew' = FALSE
  /\ custOp' = field
  /\ UNCHANGED notCust

CustSetFirstName ==
  /\ cust # Undefined
  /\ \E v \in NameInputs : CustSet("firstName", setName(v))

CustSetLastName ==
  /\ cust # Undefined
  /\ \E v \in NameInputs : CustSet("lastName", setName(v))

CustSetEmail ==
  /\ cust # Undefined
  /\ \E v \in EmailInputs : CustSet("email", setEmail(v))

CustSetAge ==
  /\ cust # Undefined
  /\ \E v \in AgeInputs : CustSet("age", setAge(v))

CustSetPhoneNumber ==
  /\ cust # Undefined
  /\ \E v \in PhoneInputs : CustSet("phoneNumber", setPhoneNumber(v))

CustSetCreditScore ==
  /\ cust # Undefined
  /\ \E v \in CreditScoreInputs : CustSet("creditScore", setCreditScore(v))

CustNext ==
  \/ CustNew
  \/ CustSetFirstName
  \/ CustSetLastName
  \/ CustSetEmail
  \/ CustSetAge
  \/ CustSetPhoneNumber
  \/ CustSetCreditScore

\* C3: a constructed RefactoredCustomer never holds invalid data: age in
\* 0..150, creditScore in 300..850, a lower-case email of the form
\* local@domain.tld, a phone number XXX-XXXX, non-empty names.
CustomerNeverInvalid ==
  cust # Undefined =>
    /\ Le(0, cust.age) /\ Le(cust.age, 150)
    /\ Le(300, cust.creditScore) /\ Le(cust.creditScore, 850)
    /\ emailRegex(cust.email) /\ cust.email = ToLowerCase(cust.email)
    /\ phoneRegex(cust.phoneNumber)
    /\ Len(cust.firstName) > 0 /\ Len(cust.lastName) > 0

(***************************************************************************)
(* Introduce Null Object: Plan, Customer and RefactoredOrder.  An object   *)
(* is a record that names its class; a method dispatches on the class.     *)
(* Prices are in hundredths.                                               *)
(***************************************************************************)
BillingPlan(name, price, features) ==
  [class |-> "BillingPlan", name |-> name, price |-> price, features |-> features]

NullPlan == [class |-> "NullPlan"]

RegularCustomer(name, email, plan) ==
  [class |-> "RegularCustomer", name |-> name, email |-> email, plan |-> plan]

NullCustomer == [class |-> "NullCustomer"]

PlanInputs ==
  { BillingPlan("Basic", 1000, <<"Feature A", "Feature B">>),
    BillingPlan("Premium", 2999, <<"Priority support", "Advanced features">>),
    BillingPlan("Free", 0, <<>>) }

CustomerInputs ==
  { RegularCustomer(n, e, p) :
      n \in {"John Doe", "Jane Smith", "Guest"},
      e \in {"john@example.com", "jane@example.com", "guest@example.com"},
      p \in PlanInputs }

\* what new RefactoredOrder(...) can be given; Undefined is the omitted argument
OrderArgs == CustomerInputs \cup {Null, Undefined}

getPrice(plan) == IF plan.class = "NullPlan" THEN 0 ELSE plan.price

getFeatures(plan) ==
  IF plan.class = "NullPlan" THEN <<"No features available">> ELSE plan.features

getName(c) == IF c.class = "NullCustomer" THEN "Guest" ELSE c.name

getEmail(c) == IF c.class = "NullCustomer" THEN "guest@example.com" ELSE c.email

getPlan(c) == IF c.class = "NullCustomer" THEN NullPlan ELSE c.plan

isNull(c) == c.class = "NullCustomer"

\* a method call on null or undefined is a TypeError
IsObject(c) == c # Null /\ c # Undefined

\* the parameter's default: customer = null
DefaultNull(arg) == IF arg = Undefined THEN Null ELSE arg

KeepNull(arg) == DefaultNull(arg)

\* customer ?? new NullCustomer()
OrNullCustomer(arg) ==
  IF DefaultNull(arg) = Null \/ DefaultNull(arg) = Undefined
  THEN NullCustomer ELSE DefaultNull(arg)

OrderInit ==
  /\ customer = Undefined
  /\ orderArg = Undefined
  /\ orderOp = "none"
  /\ orderRet = Undefined
  /\ orderOut = <<>>
  /\ orderErr = FALSE

OrderNew ==
  /\ \E arg \in OrderArgs :
       /\ customer' = OrNullCustomer(arg)
       /\ orderArg' = arg
  /\ orderOp' = "new"
  /\ orderRet' = Undefined
  /\ orderOut' = <<>>
  /\ orderErr' = FALSE
  /\ UNCHANGED notOrder

\* a call of a method of the order: what it returns and what it logs, or a
\* TypeError when this.customer is no object
OrderCall(op, ret, out) ==
  /\ orderOp # "none"
  /\ orderOp' = op
  /\ IF IsObject(customer)
       THEN orderRet' = ret /\ orderOut' = out /\ orderErr' = FALSE
       ELSE orderRet' = Undefined /\ orderOut' = <<>> /\ orderErr' = TRUE
  /\ UNCHANGED <<customer, orderArg, notOrder>>

OrderCalculateTotal ==
  /\ OrderCall("calculateTotal", Number(getPrice(getPlan(customer))), <<>>)

OrderGetCustomerInfo ==
  /\ OrderCall("getCustomerInfo",
               String(<<getName(customer), " (", getEmail(customer), ")">>), <<>>)

OrderGetFeatures ==
  /\ OrderCall("getFeatures", Array(getFeatures(getPlan(customer))), <<>>)

\* the lines console.log prints
SkipLine == String(<<"Skipping notification for guest customer">>)
SendLine(email) == String(<<"Sending notification to ", email>>)

OrderSendNotification ==
  /\ OrderCall("sendNotification", Undefined,
               (IF isNull(customer) THEN <<SkipLine>> ELSE <<>>)
                 \o <<SendLine(getEmail(customer))>>)

OrderNext ==
  \/ OrderNew
  \/ OrderCalculateTotal
  \/ OrderGetCustomerInfo
  \/ OrderGetFeatures
  \/ OrderSendNotification

\* C4: a RefactoredOrder built with null or with no customer raises no error
\* and shows the default behaviour (total 0, "Guest (guest@example.com)",
\* ["No features available"]); one built with a customer returns that
\* customer's plan price, name and email, and plan features.
NullObjectBehaviour ==
  /\ ~orderErr
  /\ orderOp = "calculateTotal" =>
       orderRet = Number(IF IsObject(orderArg) THEN orderArg.plan.price ELSE 0)
  /\ orderOp = "getCustomerInfo" =>
       orderRet = IF IsObject(orderArg)
                  THEN String(<<orderArg.name, " (", orderArg.email, ")">>)
                  ELSE String(<<"Guest", " (", "guest@example.com", ")">>)
  /\ orderOp = "getFeatures" =>
       orderRet = Array(IF IsObject(orderArg) THEN orderArg.plan.features
                        ELSE <<"No features available">>)

\* the features of an order that was built without an argument were asked for
NullObjectWitness ==
  /\ orderArg = Undefined
  /\ orderOp = "getFeatures"
  /\ orderRet = Array(<<"No features available">>)

\* C5: sendNotification skips guests: for the guest customer it logs only the
\* skip line, for a real customer exactly one "Sending notification to
\* <email>" and no skip line.
SendNotificationSkipsGuests ==
  (orderOp = "sendNotification" /\ ~orderErr) =>
    orderOut = IF isNull(customer) THEN <<SkipLine>>
               ELSE <<SendLine(getEmail(customer))>>

(***************************************************************************)
(* Replace Method with Method Object: Order.calculatePrice and             *)
(* PriceCalculator.  Amounts are exact decimals, held as integers in       *)
(* millionths: every factor of the code (0.9, 0.95, 1.1, 0.15, 0.08 ...)   *)
(* then multiplies exactly.  Item prices, quantities and weights are       *)
(* whole numbers.                                                           *)
(***************************************************************************)
Scale == 1000 * 1000

Amount(n) == n * Scale

\* x * (n / d), exact for the amounts of the model
Mul(x, n, d) == (x \div d) * n

MaxItems == 2

ItemInputs ==
  [name : {"item"}, price : {5, 12}, quantity : {1, 11}, weight : {1, 4},
   category : {"electronics", "clothing", "books"}]

ItemLists == UNION {[1..n -> ItemInputs] : n \in 0..MaxItems}

CustomerTypes == {"REGULAR", "PREMIUM", "VIP"}

Regions == {"US", "EU", "ASIA"}

\* items.reduce((sum, item) => sum + item.quantity, 0)
RECURSIVE TotalItems(_)
TotalItems(items) ==
  IF items = <<>> THEN 0 ELSE Head(items).quantity + TotalItems(Tail(items))

\* items.reduce((sum, item) => sum + item.weight * item.quantity, 0)
RECURSIVE TotalWeight(_)
TotalWeight(items) ==
  IF items = <<>> THEN 0
  ELSE Amount(Head(items).weight * Head(items).quantity) + TotalWeight(Tail(items))

\* the fields of an Order, a RefactoredOrder and a PriceCalculator
OrderData(items, customerType, region) ==
  [items |-> items, customerType |-> customerType, region |-> region,
   seasonalDiscount |-> 0]

TemporaryFields ==
  [primaryBasePrice |-> 0, secondaryBasePrice |-> 0, tertiaryBasePrice |-> 0,
   discountAmount |-> 0, taxAmount |-> 0, shippingCost |-> 0,
   loyaltyDiscount |-> 0, bulkDiscount |-> 0]

\* adds the fields of record b to record a
Extend(a, b) ==
  [f \in DOMAIN a \cup DOMAIN b |-> IF f \in DOMAIN b THEN b[f] ELSE a[f]]

BasePrice(o) == o.primaryBasePrice + o.secondaryBasePrice + o.tertiaryBasePrice

\* the element of a one-element set.  The statements of a method run one
\* after the other, each on the result of the one before: {F(x) : x \in {v}}
\* is F(v) with v evaluated once.
The(S) == CHOOSE r \in S : TRUE

\* Order.calculatePrice, lines 41-48
OrderResetTemporaryFields(o) == Extend(o, TemporaryFields)

\* Order.calculatePrice: the loop over the items, lines 51-57
RECURSIVE OrderBasePricesLoop(_, _)
OrderBasePricesLoop(o, items) ==
  IF items = <<>> THEN o
  ELSE LET item == Head(items)
           line == Amount(item.price * item.quantity)
       IN OrderBasePricesLoop(
            IF item.category = "electronics"
            THEN [o EXCEPT !.primaryBasePrice = @ + line]
            ELSE IF item.category = "clothing"
            THEN [o EXCEPT !.secondaryBasePrice = @ + Mul(line, 9, 10)]
            ELSE o,
            Tail(items))

OrderBasePrices(o) == OrderBasePricesLoop(o, o.items)

\* lines 59-71
OrderLoyaltyDiscount(o) ==
  IF o.customerType = "PREMIUM"
  THEN [o EXCEPT !.loyaltyDiscount = Mul(BasePrice(o), 1, 10)]
  ELSE IF o.customerType = "VIP"
  THEN [o EXCEPT !.loyaltyDiscount = Mul(BasePrice(o), 3, 20)]
  ELSE o

\* lines 73-76
OrderBulkDiscountOver10(o) ==
  IF TotalItems(o.items) > 10
  THEN [o EXCEPT !.bulkDiscount = Mul(o.primaryBasePrice, 1, 20)]
  ELSE o

\* lines 77-79
OrderBulkDiscountOver20(o) ==
  IF TotalItems(o.items) > 20
  THEN [o EXCEPT !.bulkDiscount = @ + Mul(o.secondaryBasePrice, 3, 100)]
  ELSE o

\* lines 81-84
OrderDiscountAmount(o) ==
  [o EXCEPT !.discountAmount =
     o.loyaltyDiscount + o.bulkDiscount
       + (o.primaryBasePrice + o.secondaryBasePrice) * o.seasonalDiscount]

\* lines 86-96: the cost by region is overwritten by line 96
OrderShippingCost(o) ==
  [o EXCEPT !.shippingCost = Mul(TotalWeight(o.items), 6, 5)]

\* lines 98-103, and once more lines 106-111
OrderShippingDiscount(o) ==
  IF BasePrice(o) > Amount(100)
  THEN [o EXCEPT !.shippingCost = Mul(@, 4, 5)] ELSE o

\* lines 114-125: the tax by region is overwritten by line 125
OrderTaxAmount(o) ==
  [o EXCEPT !.taxAmount = Mul(BasePrice(o) - o.discountAmount, 3, 20)]

\* lines 128-135
OrderFinalPrice(o) ==
  BasePrice(o) - o.discountAmount + o.shippingCost + o.taxAmount

\* the Order after calculatePrice
OrderAfterCalculatePrice(order) ==
  The({OrderTaxAmount(o9) : o9 \in
      {OrderShippingDiscount(o8) : o8 \in
      {OrderShippingDiscount(o7) : o7 \in
      {OrderShippingCost(o6) : o6 \in
      {OrderDiscountAmount(o5) : o5 \in
      {OrderBulkDiscountOver20(o4) : o4 \in
      {OrderBulkDiscountOver10(o3) : o3 \in
      {OrderLoyaltyDiscount(o2) : o2 \in
      {OrderBasePrices(o1) : o1 \in
      {OrderResetTemporaryFields(o0) : o0 \in {order}}}}}}}}}}})

\* new PriceCalculator(order)
PriceCalculator(order) ==
  Extend(TemporaryFields,
         OrderData(order.items, order.customerType, order.region))

RECURSIVE calculateBasePricesLoop(_, _)
calculateBasePricesLoop(c, items) ==
  IF items = <<>> THEN c
  ELSE LET item == Head(items)
           line == Amount(item.price * item.quantity)
           c1 == IF item.category = "electronics"
                 THEN [c EXCEPT !.primaryBasePrice = @ + line]
                 ELSE IF item.category = "clothing"
                 THEN [c EXCEPT !.secondaryBasePrice = @ + Mul(line, 19, 20)]
                 ELSE c
       IN calculateBasePricesLoop(
            [c1 EXCEPT !.tertiaryBasePrice = @ + Mul(line, 11, 10)], Tail(items))

calculateBasePrices(c) == calculateBasePricesLoop(c, c.items)

calculateLoyaltyDiscount(c) ==
  LET totalBasePrice == BasePrice(c) IN
  IF c.customerType = "PREMIUM"
  THEN [c EXCEPT !.loyaltyDiscount = Mul(totalBasePrice, 1, 10)]
  ELSE IF c.customerType = "VIP"
  THEN [c EXCEPT !.loyaltyDiscount = Mul(totalBasePrice, 3, 20)]
  ELSE c

calculateBulkDiscount(c) ==
  LET totalItems == TotalItems(c.items)
      c1 == IF totalItems > 10
            THEN [c EXCEPT !.bulkDiscount = Mul(c.primaryBasePrice, 1, 20)]
            ELSE c
  IN IF totalItems > 20
     THEN [c1 EXCEPT !.bulkDiscount = @ + Mul(c1.secondaryBasePrice, 3, 100)]
     ELSE c1

applySeasonalDiscount(c) ==
  [c EXCEPT !.discountAmount =
     c.loyaltyDiscount + c.bulkDiscount
       + (c.primaryBasePrice + c.secondaryBasePrice) * c.seasonalDiscount]

calculateDiscounts(c) ==
  The({applySeasonalDiscount(c2) : c2 \in
      {calculateBulkDiscount(c1) : c1 \in
      {calculateLoyaltyDiscount(c0) : c0 \in {c}}}})

calculateShipping(c) ==
  LET totalWeight == TotalWeight(c.items)
      c1 == IF c.region = "US"
            THEN [c EXCEPT !.shippingCost = Mul(totalWeight, 1, 2)]
            ELSE IF c.region = "EU"
            THEN [c EXCEPT !.shippingCost = Mul(totalWeight, 7, 10)]
            ELSE [c EXCEPT !.shippingCost = Mul(totalWeight, 6, 5)]
      totalBasePrice == BasePrice(c1)
  IN IF totalBasePrice > Amount(100)
     THEN [c1 EXCEPT !.shippingCost = Mul(@, 4, 5)] ELSE c1

calculateTax(c) ==
  LET subtotal == BasePrice(c) - c.discountAmount IN
  IF c.region = "US" THEN [c EXCEPT !.taxAmount = Mul(subtotal, 2, 25)]
  ELSE IF c.region = "EU" THEN [c EXCEPT !.taxAmount = Mul(subtotal, 1, 5)]
  ELSE [c EXCEPT !.taxAmount = Mul(subtotal, 3, 20)]

getFinalPrice(c) ==
  BasePrice(c) - c.discountAmount + c.shippingCost + c.taxAmount

compute(c) ==
  The({getFinalPrice(c4) : c4 \in
      {calculateTax(c3) : c3 \in
      {calculateShipping(c2) : c2 \in
      {calculateDiscounts(c1) : c1 \in
      {calculateBasePrices(c0) : c0 \in {c}}}}}})

\* RefactoredOrder.calculatePrice
RefactoredCalculatePrice(order) == compute(PriceCalculator(order))

PriceInit ==
  /\ priceOrder = Undefined
  /\ priceRefactored = Undefined
  /\ priceRet = Undefined
  /\ priceRefactoredRet = Undefined

\* new Order(items, customerType, region) and new RefactoredOrder(items,
\* customerType, region), on the same data
PriceNew ==
  /\ priceOrder = Undefined
  /\ \E items \in ItemLists, customerType \in CustomerTypes, region \in Regions :
       /\ priceOrder' =
            Extend(OrderData(items, customerType, region), TemporaryFields)
       /\ priceRefactored' = OrderData(items, customerType, region)
  /\ UNCHANGED <<priceRet, priceRefactoredRet, notPrice>>

PriceOrderCalculatePrice ==
  /\ priceOrder # Undefined
  /\ priceOrder' = OrderAfterCalculatePrice(priceOrder)
  /\ priceRet' = Number(OrderFinalPrice(priceOrder'))
  /\ UNCHANGED <<priceRefactored, priceRefactoredRet, notPrice>>

PriceRefactoredCalculatePrice ==
  /\ priceRefactored # Undefined
  /\ priceRefactoredRet' = Number(RefactoredCalculatePrice(priceRefactored))
  /\ UNCHANGED <<priceOrder, priceRefactored, priceRet, notPrice>>

PriceNext ==
  \/ PriceNew
  \/ PriceOrderCalculatePrice
  \/ PriceRefactoredCalculatePrice

\* C6: Replace Method with Method Object preserves the result: on the same
\* items, customer type and region RefactoredOrder.calculatePrice() returns
\* the price Order.calculatePrice() returns.
MethodObjectPreservesPrice ==
  (priceRet # Undefined /\ priceRefactoredRet # Undefined) =>
    priceRefactoredRet = priceRet

(***************************************************************************)
(* Move Method: Order.applyRegionalDiscounts and                            *)
(* Discounts.applyRegionalDiscounts.  Amounts are in millionths as above.   *)
(***************************************************************************)
MaxTotal == 3

\* the totals applyRegionalDiscounts is called with, in steps of 50
TotalInputs == {Amount(50 * k) : k \in 0..MaxTotal}

Countries == {"US", "EU", "ASIA", "RU", "CN", "BR"}

getProducts == <<[price |-> 10, quantity |-> 2], [price |-> 15, quantity |-> 1]>>

\* for (let product of this.getProducts()) this.total += price * quantity
RECURSIVE SumProducts(_)
SumProducts(products) ==
  IF products = <<>> THEN 0
  ELSE Amount(Head(products).price * Head(products).quantity)
         + SumProducts(Tail(products))

\* Order.applyRegionalDiscounts(total), with user.getCountry() = c
OrderApplyRegionalDiscounts(total, c) ==
  CASE c = "US" -> Mul(total, 11, 10)
    [] c = "EU" -> Mul(total, 6, 5)
    [] c = "ASIA" -> Mul(total, 13, 10)
    [] OTHER -> total

\* Discounts.applyRegionalDiscounts(total, country)
DiscountsApplyRegionalDiscounts(total, c) ==
  CASE c = "US" -> Mul(total, 17, 20)
    [] c = "RU" -> Mul(total, 3, 4)
    [] c = "CN" -> Mul(total, 9, 10)
    [] OTHER -> total

\* Discounts.applyCoupons(total)
applyCoupons(total) == IF total > Amount(100) THEN Mul(total, 9, 10) ELSE total

\* Order.calculateTotal()
MoveOrderTotal(c) == OrderApplyRegionalDiscounts(SumProducts(getProducts), c)

\* RefactoredOrder.calculateTotal()
MoveRefactoredOrderTotal(c) ==
  applyCoupons(DiscountsApplyRegionalDiscounts(SumProducts(getProducts), c))

MoveInit ==
  /\ country = Undefined
  /\ moveTotal = Undefined
  /\ moveRefactoredTotal = Undefined
  /\ moveCall = Undefined
  /\ moveRefactoredCall = Undefined

\* the user object: getCountry: () => c
MoveUser ==
  /\ country = Undefined
  /\ \E c \in Countries : country' = String(<<c>>)
  /\ UNCHANGED <<moveTotal, moveRefactoredTotal, moveCall, moveRefactoredCall, notMove>>

MoveOrderApplyRegionalDiscounts ==
  /\ country # Undefined
  /\ \E total \in TotalInputs :
       moveCall' = [total |-> total,
                    ret |-> OrderApplyRegionalDiscounts(total, country.string[1])]
  /\ UNCHANGED <<country, moveTotal, moveRefactoredTotal, moveRefactoredCall, notMove>>

MoveDiscountsApplyRegionalDiscounts ==
  /\ country # Undefined
  /\ \E total \in TotalInputs :
       moveRefactoredCall' =
         [total |-> total,
          ret |-> DiscountsApplyRegionalDiscounts(total, country.string[1])]
  /\ UNCHANGED <<country, moveTotal, moveRefactoredTotal, moveCall, notMove>>

MoveOrderCalculateTotal ==
  /\ country # Undefined
  /\ moveTotal' = Number(MoveOrderTotal(country.string[1]))
  /\ UNCHANGED <<country, moveRefactoredTotal, moveCall, moveRefactoredCall, notMove>>

MoveRefactoredCalculateTotal ==
  /\ country # Undefined
  /\ moveRefactoredTotal' = Number(MoveRefactoredOrderTotal(country.string[1]))
  /\ UNCHANGED <<country, moveTotal, moveCall, moveRefactoredCall, notMove>>

MoveNext ==
  \/ MoveUser
  \/ MoveOrderApplyRegionalDiscounts
  \/ MoveDiscountsApplyRegionalDiscounts
  \/ MoveOrderCalculateTotal
  \/ MoveRefactoredCalculateTotal

\* C7: Move Method moves the code unchanged: for the same total and country
\* Discounts.applyRegionalDiscounts returns what Order.applyRegionalDiscounts
\* returns, and RefactoredOrder.calculateTotal() equals Order.calculateTotal().
MoveMethodPreserves ==
  /\ (moveCall # Undefined /\ moveRefactoredCall # Undefined
        /\ moveCall.total = moveRefactoredCall.total)
       => moveRefactoredCall.ret = moveCall.ret
  /\ (moveTotal # Undefined /\ moveRefactoredTotal # Undefined)
       => moveRefactoredTotal = moveTotal

(***************************************************************************)
(* Shotgun Surgery / Move Method: the email validation written out in      *)
(* UserRegistration, NewsletterSubscription, ContactForm and               *)
(* EmailMarketing, and EmailValidator with the Improved classes.           *)
(***************************************************************************)
\* email.includes('@')
IncludesAt(email) == \E i \in 1..Len(email) : email[i] = "@"

\* the index of the first '@' at or after position from, Len + 1 if none
RECURSIVE NextAt(_, _)
NextAt(email, from) ==
  IF from > Len(email) THEN Len(email) + 1
  ELSE IF email[from] = "@" THEN from
  ELSE NextAt(email, from + 1)

\* email.split('@')[1]?.length: NaN stands for undefined, which compares
\* false with every number as NaN does
SplitSecondLength(email) ==
  IF ~IncludesAt(email) THEN NaN
  ELSE NextAt(email, NextAt(email, 1) + 1) - NextAt(email, 1) - 1

\* the three checks as they are written out in registerUser, updateUserEmail,
\* subscribe, submitContact and sendCampaign: which one fails, or "valid"
InlineEmailCheck(email) ==
  IF ~IncludesAt(email) THEN "Invalid email format"
  ELSE IF Lt(SplitSecondLength(email), 3) THEN "Invalid domain"
  ELSE IF Len(email) < 5 THEN "Email too short"
  ELSE "valid"

ValidateNoDomainCheck(email) ==
  IF ~IncludesAt(email) THEN [isValid |-> FALSE, error |-> "Invalid email format"]
  ELSE IF Len(email) < 5 THEN [isValid |-> FALSE, error |-> "Email too short"]
  ELSE [isValid |-> TRUE]

\* EmailValidator.validate
validate(email) ==
  IF ~IncludesAt(email) THEN [isValid |-> FALSE, error |-> "Invalid email format"]
  ELSE IF Lt(SplitSecondLength(email), 3)
  THEN [isValid |-> FALSE, error |-> "Invalid domain"]
  ELSE IF Len(email) < 5 THEN [isValid |-> FALSE, error |-> "Email too short"]
  ELSE [isValid |-> TRUE]

\* EmailValidator.isValid
isValid(email) == validate(email).isValid

\* Array.prototype.indexOf / find: the first position (from 1) of an element
\* that satisfies the test, 0 if none
RECURSIVE FirstUser(_, _, _)
FirstUser(list_, email, from) ==
  IF from > Len(list_) THEN 0
  ELSE IF list_[from].email = email THEN from
  ELSE FirstUser(list_, email, from + 1)

RECURSIVE IndexOf(_, _, _)
IndexOf(list_, email, from) ==
  IF from > Len(list_) THEN 0
  ELSE IF list_[from] = email THEN from
  ELSE IndexOf(list_, email, from + 1)

RemoveAt(list_, i) == SubSeq(list_, 1, i - 1) \o SubSeq(list_, i + 1, Len(list_))

\* Each method yields the list after the call and the boolean returned.
registerUser(us, name, email) ==
  IF InlineEmailCheck(email) # "valid" THEN [list |-> us, ret |-> FALSE]
  ELSE [list |-> Append(us, [email |-> email, name |-> name]), ret |-> TRUE]

updateUserEmail(us, oldEmail, newEmail) ==
  IF InlineEmailCheck(newEmail) # "valid" THEN [list |-> us, ret |-> FALSE]
  ELSE IF FirstUser(us, oldEmail, 1) # 0
  THEN [list |-> [us EXCEPT ![FirstUser(us, oldEmail, 1)].email = newEmail],
        ret |-> TRUE]
  ELSE [list |-> us, ret |-> FALSE]

subscribe(subs, email) ==
  IF InlineEmailCheck(email) # "valid" THEN [list |-> subs, ret |-> FALSE]
  ELSE [list |-> Append(subs, email), ret |-> TRUE]

unsubscribe(subs, email) ==
  IF ~IncludesAt(email) THEN [list |-> subs, ret |-> FALSE]
  ELSE IF IndexOf(subs, email, 1) > 0
  THEN [list |-> RemoveAt(subs, IndexOf(subs, email, 1)), ret |-> TRUE]
  ELSE [list |-> subs, ret |-> FALSE]

submitContact(email) == InlineEmailCheck(email) = "valid"

\* sendCampaign: the emails a "Sent to:" line is logged for, in order
RECURSIVE sendCampaign(_)
sendCampaign(emails) ==
  IF emails = <<>> THEN <<>>
  ELSE IF InlineEmailCheck(Head(emails)) # "valid" THEN sendCampaign(Tail(emails))
  ELSE <<Head(emails)>> \o sendCampaign(Tail(emails))

ImprovedRegisterUser(us, name, email) ==
  IF ~validate(email).isValid THEN [list |-> us, ret |-> FALSE]
  ELSE [list |-> Append(us, [email |-> email, name |-> name]), ret |-> TRUE]

ImprovedUpdateUserEmail(us, oldEmail, newEmail) ==
  IF ~validate(newEmail).isValid THEN [list |-> us, ret |-> FALSE]
  ELSE IF FirstUser(us, oldEmail, 1) # 0
  THEN [list |-> [us EXCEPT ![FirstUser(us, oldEmail, 1)].email = newEmail],
        ret |-> TRUE]
  ELSE [list |-> us, ret |-> FALSE]

ImprovedSubscribe(subs, email) ==
  IF ~validate(email).isValid THEN [list |-> subs, ret |-> FALSE]
  ELSE [list |-> Append(subs, email), ret |-> TRUE]

ImprovedUnsubscribe(subs, email) ==
  IF ~isValid(email) THEN [list |-> subs, ret |-> FALSE]
  ELSE IF IndexOf(subs, email, 1) > 0
  THEN [list |-> RemoveAt(subs, IndexOf(subs, email, 1)), ret |-> TRUE]
  ELSE [list |-> subs, ret |-> FALSE]

ImprovedSubmitContact(email) == validate(email).isValid

\* emails.filter(email => EmailValidator.isValid(email))
RECURSIVE ImprovedSendCampaign(_)
ImprovedSendCampaign(emails) ==
  IF emails = <<>> THEN <<>>
  ELSE IF isValid(Head(emails))
  THEN <<Head(emails)>> \o ImprovedSendCampaign(Tail(emails))
  ELSE ImprovedSendCampaign(Tail(emails))

MaxUsers == 2
MaxSubscribers == 2
MaxCampaign == 2
MaxAddressLen == 5

\* the emails the methods are called with: one for every outcome of the
\* checks, short and long, and two valid ones
MailInputs ==
  { <<>>,
    <<"a", "a", "a", "a", "a">>,
    <<"a", "@", "a", "a">>,
    <<"a", "a", "a", "@", "a", "a">>,
    <<"@", "a", "a", "a">>,
    <<"a", "@", "a", "@", "a", "a", "a">>,
    <<"a", "@", "a", "a", "a">>,
    <<"b", "@", "b", "b", "b">> }

CampaignInputs ==
  { <<"a", "@", "a", "a", "a">>, <<"b", "@", "b", "b", "b">>,
    <<"a", "a", "a", "@", "a", "a">>, <<"a", "a", "a", "a", "a">> }

CampaignLists == UNION {[1..n -> CampaignInputs] : n \in 0..MaxCampaign}

MailInit ==
  /\ users = <<>>
  /\ subscribers = <<>>
  /\ usersImproved = <<>>
  /\ subscribersImproved = <<>>
  /\ mailCall = [op |-> "none"]

MailRegisterUser ==
  /\ Len(users) < MaxUsers /\ Len(usersImproved) < MaxUsers
  /\ \E email \in MailInputs :
       /\ users' = registerUser(users, "Jane", email).list
       /\ usersImproved' = ImprovedRegisterUser(usersImproved, "Jane", email).list
       /\ mailCall' =
            [op |-> "registerUser", email |-> email,
             ret |-> Boolean(registerUser(users, "Jane", email).ret),
             retImproved |->
               Boolean(ImprovedRegisterUser(usersImproved, "Jane", email).ret)]
  /\ UNCHANGED <<subscribers, subscribersImproved, notMail>>

MailUpdateUserEmail ==
  /\ \E oldEmail \in MailInputs, newEmail \in MailInputs :
       /\ users' = updateUserEmail(users, oldEmail, newEmail).list
       /\ usersImproved' =
            ImprovedUpdateUserEmail(usersImproved, oldEmail, newEmail).list
       /\ mailCall' =
            [op |-> "updateUserEmail", email |-> newEmail,
             ret |-> Boolean(updateUserEmail(users, oldEmail, newEmail).ret),
             retImproved |->
               Boolean(ImprovedUpdateUserEmail(usersImproved, oldEmail, newEmail).ret)]
  /\ UNCHANGED <<subscribers, subscribersImproved, notMail>>

MailSubscribe ==
  /\ Len(subscribers) < MaxSubscribers /\ Len(subscribersImproved) < MaxSubscribers
  /\ \E email \in MailInputs :
       /\ subscribers' = subscribe(subscribers, email).list
       /\ subscribersImproved' = ImprovedSubscribe(subscribersImproved, email).list
       /\ mailCall' =
            [op |-> "subscribe", email |-> email,
             ret |-> Boolean(subscribe(subscribers, email).ret),
             retImproved |-> Boolean(ImprovedSubscribe(subscribersImproved, email).ret)]
  /\ UNCHANGED <<users, usersImproved, notMail>>

MailUnsubscribe ==
  /\ \E email \in MailInputs :
       /\ subscribers' = unsubscribe(subscribers, email).list
       /\ subscribersImproved' = ImprovedUnsubscribe(subscribersImproved, email).list
       /\ mailCall' =
            [op |-> "unsubscribe", email |-> email,
             ret |-> Boolean(unsubscribe(subscribers, email).ret),
             retImproved |->
               Boolean(ImprovedUnsubscribe(subscribersImproved, email).ret)]
  /\ UNCHANGED <<users, usersImproved, notMail>>

MailSubmitContact ==
  /\ \E email \in MailInputs :
       mailCall' = [op |-> "submitContact", email |-> email,
                    ret |-> Boolean(submitContact(email)),
                    retImproved |-> Boolean(ImprovedSubmitContact(email))]
  /\ UNCHANGED <<users, usersImproved, subscribers, subscribersImproved, notMail>>

MailSendCampaign ==
  /\ \E emails \in CampaignLists :
       mailCall' = [op |-> "sendCampaign", email |-> emails,
                    ret |-> Array(sendCampaign(emails)),
                    retImproved |-> Array(ImprovedSendCampaign(emails))]
  /\ UNCHANGED <<users, usersImproved, subscribers, subscribersImproved, notMail>>

MailNext ==
  \/ MailRegisterUser
  \/ MailUpdateUserEmail
  \/ MailSubscribe
  \/ MailUnsubscribe
  \/ MailSubmitContact
  \/ MailSendCampaign

\* C8: centralising the validation in EmailValidator changes no outcome:
\* after the same calls the Improved classes hold the same users and
\* subscribers, every call returned the same boolean, and sendCampaign sent to
\* the same emails in the same order; and on every string of '@' and letters
\* up to MaxAddressLen the written-out checks and EmailValidator agree.
EmailValidatorPreserves ==
  /\ usersImproved = users
  /\ subscribersImproved = subscribers
  /\ mailCall.op # "none" => mailCall.retImproved = mailCall.ret
  /\ \A email \in Strings({"a", "@"}, MaxAddressLen) :
       isValid(email) = (InlineEmailCheck(email) = "valid")

\* unsubscribe was called, on a newsletter with subscribers, with an email
\* that has an '@' (all the original tests) and that EmailValidator rejects
EmailValidatorWitness ==
  /\ mailCall.op = "unsubscribe"
  /\ IncludesAt(mailCall.email)
  /\ ~isValid(mailCall.email)
  /\ Len(subscribers) > 0

(***************************************************************************)
(* Shotgun Surgery / Move Field: OrderService with the address spread over *)
(* Customer, Shipping and Billing, and RefactoredOrderService with one     *)
(* Address.                                                                *)
(***************************************************************************)
Customer(data) == [name |-> data.name, street |-> data.street]

Shipping(data) == [city |-> data.city, zipCode |-> data.zipCode]

Billing(data) == [country |-> data.country]

\* Customer.getShortAddress, Shipping.getShippingCode, Billing.isTaxFree
getShortAddress(c) == String(<<c.street>>)

getShippingCode(sh) == String(<<sh.city, "-", sh.zipCode>>)

isTaxFree(b) == Boolean(b.country = "Tax Haven")

OrderService(data) ==
  [customer |-> Customer(data), shipping |-> Shipping(data),
   billing |-> Billing(data)]

getFullAddress(s) ==
  String(<<s.customer.street, ", ", s.shipping.city, ", ", s.shipping.zipCode,
           ", ", s.billing.country>>)

updateAddress(s, street, city, zipCode, country_) ==
  [customer |-> [s.customer EXCEPT !.street = street],
   shipping |-> [s.shipping EXCEPT !.city = city, !.zipCode = zipCode],
   billing |-> [s.billing EXCEPT !.country = country_]]

Address(street, city, zipCode, country_) ==
  [street |-> street, city |-> city, zipCode |-> zipCode, country |-> country_]

AddressGetFullAddress(a) ==
  String(<<a.street, ", ", a.city, ", ", a.zipCode, ", ", a.country>>)

AddressGetShortAddress(a) == String(<<a.street>>)

AddressGetShippingCode(a) == String(<<a.city, "-", a.zipCode>>)

AddressIsTaxFree(a) == Boolean(a.country = "Tax Haven")

AddressUpdateKeepsZipCode(a, street, city, zipCode, country_) ==
  [a EXCEPT !.street = street, !.city = city, !.country = country_]

AddressUpdateAddress(a, street, city, zipCode, country_) ==
  [a EXCEPT !.street = street, !.city = city, !.zipCode = zipCode,
            !.country = country_]

\* An object is a reference: its position in the heap of the Address objects
\* created so far. new Address(...) appends one.
NewAddress(heap, a) == [heap |-> Append(heap, a), ref |-> Len(heap) + 1]

\* the RefactoredCustomer, given the reference of the Address it has created
RefactoredCustomer(data, ref) == [name |-> data.name, address |-> ref]

getAddress(c) == c.address

RefactoredShipping(address) == [address |-> address]

RefactoredBilling(address) == [address |-> address]

RefactoredOrderService(data, ref) ==
  [customer |-> RefactoredCustomer(data, ref),
   shipping |-> RefactoredShipping(getAddress(RefactoredCustomer(data, ref))),
   billing |-> RefactoredBilling(getAddress(RefactoredCustomer(data, ref)))]

RefactoredGetFullAddress(heap, s) ==
  AddressGetFullAddress(heap[getAddress(s.customer)])

\* the heap after RefactoredOrderService.updateAddress
RefactoredUpdateAddress(heap, s, street, city, zipCode, country_) ==
  [heap EXCEPT ![getAddress(s.customer)] =
     AddressUpdateAddress(@, street, city, zipCode, country_)]

RefactoredGetShortAddress(heap, c) == AddressGetShortAddress(heap[c.address])

RefactoredGetShippingCode(heap, sh) == AddressGetShippingCode(heap[sh.address])

RefactoredIsTaxFree(heap, b) == AddressIsTaxFree(heap[b.address])

MaxAddresses == 2

CustomerDataInputs ==
  [name : {"John Doe"}, street : {"123 Main St", "456 Oak Ave"},
   city : {"Springfield", "Portland"}, zipCode : {"12345", "97201"},
   country : {"USA", "Tax Haven"}]

AddrInit ==
  /\ addrService = Null
  /\ addrHeap = <<>>
  /\ addrRefactored = Null
  /\ addrLast = Null
  /\ addrCall = [op |-> "none"]

\* new OrderService(data) and new RefactoredOrderService(data)
AddrNew ==
  /\ Len(addrHeap) < MaxAddresses
  /\ \E data \in CustomerDataInputs :
       LET made ==
             NewAddress(addrHeap,
               Address(data.street, data.city, data.zipCode, data.country))
       IN /\ addrService' = OrderService(data)
          /\ addrHeap' = made.heap
          /\ addrRefactored' = RefactoredOrderService(data, made.ref)
          /\ addrLast' = [data |-> data, changed |-> FALSE]
  /\ addrCall' = [op |-> "new"]
  /\ UNCHANGED notAddr

AddrUpdateAddress ==
  /\ addrService # Null
  /\ \E d \in CustomerDataInputs :
       /\ addrService' =
            updateAddress(addrService, d.street, d.city, d.zipCode, d.country)
       /\ addrHeap' =
            RefactoredUpdateAddress(addrHeap, addrRefactored, d.street, d.city,
                                    d.zipCode, d.country)
       /\ addrLast' = [data |-> d, changed |-> d # addrLast.data]
  /\ addrCall' = [op |-> "updateAddress"]
  /\ UNCHANGED <<addrRefactored, notAddr>>

AddrCall(op, ret, retRefactored) ==
  /\ addrService # Null
  /\ addrCall' = [op |-> op, ret |-> ret, retRefactored |-> retRefactored]
  /\ UNCHANGED <<addrService, addrHeap, addrRefactored, addrLast, notAddr>>

AddrGetFullAddress ==
  /\ addrService # Null
  /\ AddrCall("getFullAddress", getFullAddress(addrService),
              RefactoredGetFullAddress(addrHeap, addrRefactored))

AddrGetShortAddress ==
  /\ addrService # Null
  /\ AddrCall("getShortAddress", getShortAddress(addrService.customer),
              RefactoredGetShortAddress(addrHeap, addrRefactored.customer))

AddrGetShippingCode ==
  /\ addrService # Null
  /\ AddrCall("getShippingCode", getShippingCode(addrService.shipping),
              RefactoredGetShippingCode(addrHeap, addrRefactored.shipping))

AddrIsTaxFree ==
  /\ addrService # Null
  /\ AddrCall("isTaxFree", isTaxFree(addrService.billing),
              RefactoredIsTaxFree(addrHeap, addrRefactored.billing))

AddrNext ==
  \/ AddrNew
  \/ AddrUpdateAddress
  \/ AddrGetFullAddress
  \/ AddrGetShortAddress
  \/ AddrGetShippingCode
  \/ AddrIsTaxFree

\* "street, city, zipCode, country" of the given data
FullAddressOf(d) ==
  String(<<d.street, ", ", d.city, ", ", d.zipCode, ", ", d.country>>)

\* C9: after the same CustomerData and the same updateAddress calls,
\* RefactoredOrderService.getFullAddress() equals OrderService.getFullAddress()
\* and both are "street, city, zipCode, country" of the most recent update (of
\* the initial data when there was none); customer, shipping and billing of
\* the refactored service hold the same Address, so what each of them reports
\* is what the separate objects of OrderService report.
MoveFieldPreserves ==
  addrService # Null =>
    /\ RefactoredGetFullAddress(addrHeap, addrRefactored)
         = getFullAddress(addrService)
    /\ getFullAddress(addrService) = FullAddressOf(addrLast.data)
    /\ addrRefactored.shipping.address = addrRefactored.customer.address
    /\ addrRefactored.billing.address = addrRefactored.customer.address
    /\ addrCall.op \in {"getFullAddress", "getShortAddress", "getShippingCode",
                        "isTaxFree"}
         => addrCall.retRefactored = addrCall.ret
    /\ addrCall.op = "getFullAddress"
         => addrCall.ret = FullAddressOf(addrLast.data)

\* an update has changed the address of the second service constructed, and
\* the shipping part has been asked for its code since
MoveFieldWitness ==
  /\ addrCall.op = "getShippingCode"
  /\ addrLast # Null
  /\ addrLast.changed
  /\ Len(addrHeap) = 2
  /\ addrHeap[1] # addrHeap[2]

(***************************************************************************)
(* Message Chains: the methods of the Hide Delegate example as             *)
(* MethodEntities (the accesses of the body in evaluation order), and the  *)
(* chainDepth metric and the Message Chains detector of the engine.        *)
(***************************************************************************)
AccessEntity(target, owner, kind, returns) ==
  [target |-> target, owner |-> owner, kind |-> kind, returns |-> returns]

MethodEntity(owner, name, accesses) ==
  [owner |-> owner, name |-> name, accesses |-> accesses]

\* Client.displayPersonInfo with the two chains replaced by the delegate
\* methods
ClientDisplayPersonInfoDelegated ==
  MethodEntity("Client", "displayPersonInfo",
    << AccessEntity("getManager", "Person", "call", "string"),
       AccessEntity("getChargeCode", "Person", "call", "string"),
       AccessEntity("getName", "Person", "call", "string"),
       AccessEntity("log", "Console", "call", "void"),
       AccessEntity("log", "Console", "call", "void"),
       AccessEntity("log", "Console", "call", "void") >>)

\* Client.displayPersonInfo(person: Person)
ClientDisplayPersonInfo ==
  MethodEntity("Client", "displayPersonInfo",
    << AccessEntity("getDepartment", "Person", "call", "Department"),
       AccessEntity("getManager", "Department", "call", "string"),
       AccessEntity("getDepartment", "Person", "call", "Department"),
       AccessEntity("getChargeCode", "Department", "call", "string"),
       AccessEntity("getName", "Person", "call", "string"),
       AccessEntity("log", "Console", "call", "void"),
       AccessEntity("log", "Console", "call", "void"),
       AccessEntity("log", "Console", "call", "void") >>)

\* PersonRefactored.getManager: this.department.getManager()
PersonRefactoredGetManager ==
  MethodEntity("PersonRefactored", "getManager",
    << AccessEntity("department", "PersonRefactored", "read", "Department"),
       AccessEntity("getManager", "Department", "call", "string") >>)

\* ClientRefactored.displayPersonInfo(person: PersonRefactored)
ClientRefactoredDisplayPersonInfo ==
  MethodEntity("ClientRefactored", "displayPersonInfo",
    << AccessEntity("getManager", "PersonRefactored", "call", "string"),
       AccessEntity("getChargeCode", "PersonRefactored", "call", "string"),
       AccessEntity("getName", "PersonRefactored", "call", "string"),
       AccessEntity("log", "Console", "call", "void"),
       AccessEntity("log", "Console", "call", "void"),
       AccessEntity("log", "Console", "call", "void") >>)

\* the second access is a call on what the first call returned
Linked(prev, next) ==
  /\ prev.kind = "call"
  /\ next.kind = "call"
  /\ next.owner = prev.returns

\* the length of the call.call.call sequence that ends at access i
RECURSIVE ChainEndingAt(_, _)
ChainEndingAt(accesses, i) ==
  IF accesses[i].kind # "call" THEN 0
  ELSE IF i > 1 /\ Linked(accesses[i - 1], accesses[i])
  THEN 1 + ChainEndingAt(accesses, i - 1)
  ELSE 1

\* the longest such sequence of the method, 0 for a method without accesses
chainDepth(method) ==
  IF method.accesses = <<>> THEN 0
  ELSE Max({ChainEndingAt(method.accesses, i) : i \in 1..Len(method.accesses)})

DefaultConfig == [messageChainMinDepth |-> 2]

Finding(kind, location, refactoring) ==
  [kind |-> kind, location |-> location, refactoring |-> refactoring]

\* the Message Chains detector: Finding[] of one method
detectMessageChains(method, config) ==
  IF chainDepth(method) >= config.messageChainMinDepth
  THEN {Finding("Message Chains", <<method.owner, method.name>>, "Hide Delegate")}
  ELSE {}

MaxAccesses == 3

AccessInputs ==
  {AccessEntity("b", o, k, r) : o \in {"A", "B"}, k \in {"read", "call"},
                                r \in {"A", "B"}}

\* the methods the Program-Model Adapter hands over: the three of the example
\* and every method of a class A with up to MaxAccesses accesses
MethodInputs ==
  {ClientDisplayPersonInfo, PersonRefactoredGetManager,
   ClientRefactoredDisplayPersonInfo}
  \cup {MethodEntity("A", "m", accesses) :
          accesses \in UNION {[1..n -> AccessInputs] : n \in 1..MaxAccesses}}

ChainInit ==
  /\ chainMethod = Null
  /\ chainPhase = "idle"
  /\ chainFindings = {}

\* the Program Model is built, once per analysis run
ChainBuildModel ==
  /\ chainPhase = "idle"
  /\ \E method \in MethodInputs : chainMethod' = method
  /\ chainPhase' = "built"
  /\ chainFindings' = {}
  /\ UNCHANGED notChain

\* the detector runs over the built model, under the default configuration
ChainDetect ==
  /\ chainPhase = "built"
  /\ chainFindings' = detectMessageChains(chainMethod, DefaultConfig)
  /\ chainPhase' = "detected"
  /\ UNCHANGED <<chainMethod, notChain>>

\* the Findings are consumed and the Program Model is discarded
ChainDiscard ==
  /\ chainPhase = "detected"
  /\ chainMethod' = Null
  /\ chainPhase' = "idle"
  /\ chainFindings' = {}
  /\ UNCHANGED notChain

ChainNext ==
  \/ ChainBuildModel
  \/ ChainDetect
  \/ ChainDiscard

\* the method has a call, and no call is made on what the call before it
\* returned: a.b()
OneHop(method) ==
  /\ \E i \in 1..Len(method.accesses) : method.accesses[i].kind = "call"
  /\ \A i \in 1..(Len(method.accesses) - 1) :
       ~Linked(method.accesses[i], method.accesses[i + 1])

\* some call is made on what the call before it returned, and no third call on
\* what that one returned: a.b().c()
TwoHops(method) ==
  /\ \E i \in 1..(Len(method.accesses) - 1) :
       Linked(method.accesses[i], method.accesses[i + 1])
  /\ \A i \in 1..(Len(method.accesses) - 2) :
       ~(/\ Linked(method.accesses[i], method.accesses[i + 1])
         /\ Linked(method.accesses[i + 1], method.accesses[i + 2]))

HasMessageChainsFinding ==
  \E f \in chainFindings :
    /\ f.kind = "Message Chains"
    /\ f.location = <<chainMethod.owner, chainMethod.name>>

\* C10: under the default configuration a method whose longest call chain has
\* exactly one hop yields no Message Chains finding and a method with exactly
\* two hops yields one; Client.displayPersonInfo is flagged,
\* PersonRefactored.getManager and ClientRefactored.displayPersonInfo are not.
MessageChainBoundary ==
  chainPhase = "detected" =>
    /\ OneHop(chainMethod) => ~HasMessageChainsFinding
    /\ TwoHops(chainMethod) => HasMessageChainsFinding
    /\ chainMethod = ClientDisplayPersonInfo => HasMessageChainsFinding
    /\ chainMethod \in {PersonRefactoredGetManager,
                        ClientRefactoredDisplayPersonInfo}
         => ~HasMessageChainsFinding

\* the detector has run over Client.displayPersonInfo and has flagged it
MessageChainWitness ==
  /\ chainPhase = "detected"
  /\ chainMethod = ClientDisplayPersonInfo
  /\ TwoHops(chainMethod)
  /\ HasMessageChainsFinding

(***************************************************************************)
(* The engine's analysis run: the Program Model is built entity by entity, *)
(* the detectors (Message Chains, Feature Envy) walk it in parallel, each  *)
(* at its own pace, the Refactoring Suggester maps the Findings through    *)
(* its table, and the Report Emitter takes the result.                     *)
(***************************************************************************)
Detectors == {"Message Chains", "Feature Envy"}

\* the ClassEntity ids of the Program Model
EngClasses ==
  {"Department", "Person", "Client", "PersonRefactored", "ClientRefactored",
   "Console", "Node", "Walker", "Report"}

\* the return class of a call whose resolution is cyclic
Unresolved == "<cyclic>"

\* a method over a malformed part of the model: chainDepth cannot be computed
WalkerWalk ==
  MethodEntity("Walker", "walk",
    << AccessEntity("getNext", "Node", "call", Unresolved),
       AccessEntity("getValue", "Node", "call", "string") >>)

\* a method with an access into a class the model does not hold
ReportPrint ==
  MethodEntity("Report", "print",
    << AccessEntity("format", "Formatter", "call", "string") >>)

Range(seq) == {seq[i] : i \in 1..Len(seq)}

\* ModelIntegrityError: a reference to a class id that does not exist
Dangling(model) ==
  \E m \in Range(model) : \E a \in Range(m.accesses) : a.owner \notin EngClasses

\* MetricComputationError of chainDepth for this method
ChainDepthFails(method) ==
  \E a \in Range(method.accesses) : a.returns = Unresolved

\* the targets the method touches in each other class
ExternalTargets(method, class) ==
  {a.target : a \in {b \in Range(method.accesses) : b.owner = class}}

externalAccessCount(method) ==
  Cardinality({i \in 1..Len(method.accesses) :
                 method.accesses[i].owner # method.owner})

\* externalAccessRatio(method) > 0.5 with at least 2 distinct external
\* accesses to the same other class
detectFeatureEnvy(method) ==
  IF /\ 2 * externalAccessCount(method) > Len(method.accesses)
     /\ \E a \in Range(method.accesses) :
          /\ a.owner # method.owner
          /\ Cardinality(ExternalTargets(method, a.owner)) >= 2
  THEN {Finding("Feature Envy", <<method.owner, method.name>>, "Move Function")}
  ELSE {}

SkippedFinding(detector, method, reason) ==
  [skipped |-> detector, location |-> <<method.owner, method.name>>,
   reason |-> reason]

IsFinding(record) == "kind" \in DOMAIN record

\* what one detector puts out for one method: its Findings, or the
\* skipped-finding record a local error is downgraded to
DetectorRecords(detector, method) ==
  IF detector = "Message Chains"
  THEN IF ChainDepthFails(method)
       THEN {SkippedFinding(detector, method, "MetricComputationError")}
       ELSE detectMessageChains(method, DefaultConfig)
  ELSE detectFeatureEnvy(method)

RECURSIVE AppendAll(_, _)
AppendAll(seq, S) ==
  IF S = {} THEN seq
  ELSE LET x == CHOOSE y \in S : TRUE IN AppendAll(Append(seq, x), S \ {x})

\* the suggester's table, smell -> refactoring
FullTable ==
  ("Message Chains" :> "Hide Delegate") @@ ("Feature Envy" :> "Move Function")

TableInputs == {FullTable, ("Message Chains" :> "Hide Delegate")}

\* suggest(Finding) -> RefactoringPlan
suggest(table, finding) ==
  [kind |-> table[finding.kind], targetClass |-> finding.location[1],
   finding |-> finding]

MaxMethods == 2
MaxRuns == 2

MethodShapes ==
  {ClientDisplayPersonInfo, PersonRefactoredGetManager,
   ClientRefactoredDisplayPersonInfo, WalkerWalk, ReportPrint}

\* the programs the adapter hands over: up to MaxMethods different methods
ProgramInputs ==
  {p \in UNION {[1..n -> MethodShapes] : n \in 1..MaxMethods} :
     \A i, j \in 1..Len(p) : i # j => p[i] # p[j]}

EngInit ==
  /\ engInput = <<>>
  /\ engTable = FullTable
  /\ engModel = <<>>
  /\ engPhase = "idle"
  /\ engCursor = [d \in Detectors |-> 1]
  /\ engRecords = <<>>
  /\ engPlans = {}
  /\ engError = Null
  /\ engOutput = Null
  /\ engRun = 1
  /\ engPrevious = Null

\* the adapter is handed a program, the suggester a table
EngStart ==
  /\ engPhase = "idle"
  /\ \E program \in ProgramInputs, table \in TableInputs :
       /\ engInput' = program
       /\ engTable' = table
  /\ engPhase' = "build"
  /\ UNCHANGED <<engModel, engCursor, engRecords, engPlans, engError,
                 engOutput, engRun, engPrevious, notEng>>

\* phase 1: the next entity enters the Program Model
EngBuildStep ==
  /\ engPhase = "build"
  /\ Len(engModel) < Len(engInput)
  /\ engModel' = Append(engModel, engInput[Len(engModel) + 1])
  /\ UNCHANGED <<engInput, engTable, engPhase, engCursor, engRecords, engPlans,
                 engError, engOutput, engRun, engPrevious, notEng>>

\* the model is complete: a dangling reference is fatal, otherwise the
\* detectors are released
EngBuildDone ==
  /\ engPhase = "build"
  /\ Len(engModel) = Len(engInput)
  /\ IF Dangling(engModel)
     THEN /\ engError' = [error |-> "ModelIntegrityError", stage |-> "build"]
          /\ engPhase' = "halted"
     ELSE /\ engError' = engError
          /\ engPhase' = "detect"
  /\ UNCHANGED <<engInput, engTable, engModel, engCursor, engRecords, engPlans,
                 engOutput, engRun, engPrevious, notEng>>

DetectorMayStepWhileBuilding == engPhase \in {"build", "detect"}

\* the barrier: detectors are fanned out in phase 2 only
DetectorMayStep == engPhase = "detect"

NextEntityAbortingOnFailure(detector, model, i) ==
  IF \E r \in DetectorRecords(detector, model[i]) : ~IsFinding(r)
  THEN Len(model) + 1
  ELSE i + 1

\* where a detector goes on after entity i, whatever became of it
NextEntity(detector, model, i) == i + 1

\* phase 2: one detector analyses its next method
EngDetectStep(detector) ==
  /\ DetectorMayStep
  /\ engCursor[detector] <= Len(engModel)
  /\ engRecords' =
       AppendAll(engRecords,
                 DetectorRecords(detector, engModel[engCursor[detector]]))
  /\ engCursor' =
       [engCursor EXCEPT
          ![detector] = NextEntity(detector, engModel, engCursor[detector])]
  /\ UNCHANGED <<engInput, engTable, engModel, engPhase, engPlans, engError,
                 engOutput, engRun, engPrevious, notEng>>

EngDetectMessageChains ==
  /\ engCursor["Message Chains"] <= Len(engModel)
  /\ EngDetectStep("Message Chains")

EngDetectFeatureEnvy ==
  /\ engCursor["Feature Envy"] <= Len(engModel)
  /\ EngDetectStep("Feature Envy")

\* every detector has walked the whole model: the Findings are collected
EngCollected ==
  /\ engPhase = "detect"
  /\ \A d \in Detectors : engCursor[d] > Len(engModel)
  /\ engPhase' = "suggest"
  /\ UNCHANGED <<engInput, engTable, engModel, engCursor, engRecords, engPlans,
                 engError, engOutput, engRun, engPrevious, notEng>>

\* the Refactoring Suggester: one plan per Finding, UnmappedSmellError (fatal)
\* for a kind the table does not hold
EngSuggest ==
  /\ engPhase = "suggest"
  /\ IF \E r \in Range(engRecords) : IsFinding(r) /\ r.kind \notin DOMAIN engTable
     THEN /\ engError' = [error |-> "UnmappedSmellError", stage |-> "suggest"]
          /\ engPhase' = "halted"
          /\ engPlans' = engPlans
     ELSE /\ engError' = engError
          /\ engPhase' = "emit"
          /\ engPlans' =
               {suggest(engTable, r) : r \in {x \in Range(engRecords) : IsFinding(x)}}
  /\ UNCHANGED <<engInput, engTable, engModel, engCursor, engRecords,
                 engOutput, engRun, engPrevious, notEng>>

\* the Report Emitter takes the Findings, the skipped records and the plans
EngEmit ==
  /\ engPhase = "emit"
  /\ engOutput' =
       [findings |-> {r \in Range(engRecords) : IsFinding(r)},
        skipped |-> {r \in Range(engRecords) : ~IsFinding(r)},
        plans |-> engPlans]
  /\ engPhase' = "done"
  /\ UNCHANGED <<engInput, engTable, engModel, engCursor, engRecords, engPlans,
                 engError, engRun, engPrevious, notEng>>

CursorsKeptFromLastRun == engCursor

\* a run starts every detector at the first entity
CursorsAtStart == [d \in Detectors |-> 1]

\* the pipeline is run again over the same Program Model and configuration
EngRunAgain ==
  /\ engPhase = "done"
  /\ engRun < MaxRuns
  /\ engPrevious' = [findings |-> engOutput.findings, order |-> engRecords]
  /\ engRun' = engRun + 1
  /\ engCursor' = CursorsAtStart
  /\ engRecords' = <<>>
  /\ engPlans' = {}
  /\ engOutput' = Null
  /\ engPhase' = "detect"
  /\ UNCHANGED <<engInput, engTable, engModel, engError, notEng>>

EngNext ==
  \/ EngStart
  \/ EngBuildStep
  \/ EngBuildDone
  \/ EngDetectMessageChains
  \/ EngDetectFeatureEnvy
  \/ EngCollected
  \/ EngSuggest
  \/ EngEmit
  \/ EngRunAgain

FindingsAt(kind, method) ==
  {r \in Range(engRecords) :
     IsFinding(r) /\ r.kind = kind /\ r.location = <<method.owner, method.name>>}

SkippedAt(method) ==
  {r \in Range(engRecords) :
     ~IsFinding(r) /\ r.location = <<method.owner, method.name>>}

\* detection is over: the suggester, the emitter or nobody is at work
DetectionOver ==
  \/ engPhase \in {"suggest", "emit", "done"}
  \/ engPhase = "halted" /\ engError.stage = "suggest"

\* C12: a detector's failure is isolated: where chainDepth cannot be computed
\* the Message Chains finding of that method, and only that, is replaced by
\* a skipped-finding record; Message Chains still reports the other methods
\* and Feature Envy reports every method, every detector walks the whole
\* model, and what was collected is what is emitted; the run halts only on a
\* ModelIntegrityError or an UnmappedSmellError, and only when there is one.
FailureIsolated ==
  /\ DetectionOver =>
       /\ \A d \in Detectors : engCursor[d] > Len(engModel)
       /\ \A m \in Range(engModel) :
            /\ ChainDepthFails(m) =>
                 /\ \E r \in SkippedAt(m) :
                      r.skipped = "Message Chains" /\ r.reason = "MetricComputationError"
                 /\ FindingsAt("Message Chains", m) = {}
            /\ ~ChainDepthFails(m) =>
                 /\ SkippedAt(m) = {}
                 /\ (FindingsAt("Message Chains", m) # {}) <=> (chainDepth(m) >= 2)
            /\ (FindingsAt("Feature Envy", m) # {}) <=> (detectFeatureEnvy(m) # {})
  /\ engPhase = "done" =>
       /\ engOutput.findings = {r \in Range(engRecords) : IsFinding(r)}
       /\ engOutput.skipped = {r \in Range(engRecords) : ~IsFinding(r)}
  /\ (engPhase = "halted") <=> (engError # Null)
  /\ engPhase = "halted" =>
       \/ /\ engError = [error |-> "ModelIntegrityError", stage |-> "build"]
          /\ Dangling(engInput)
       \/ /\ engError = [error |-> "UnmappedSmellError", stage |-> "suggest"]
          /\ \E r \in Range(engRecords) :
               IsFinding(r) /\ r.kind \notin DOMAIN engTable

\* a run has ended whose first method is the malformed one: its Message
\* Chains finding is skipped, Feature Envy has reported it, and Message Chains
\* has reported the method after it
FailureIsolatedWitness ==
  /\ engPhase = "done"
  /\ engModel = <<WalkerWalk, ClientDisplayPersonInfo>>
  /\ SkippedAt(WalkerWalk) # {}
  /\ FindingsAt("Feature Envy", WalkerWalk) # {}
  /\ FindingsAt("Message Chains", ClientDisplayPersonInfo) # {}

\* C13: the two-phase barrier: a detector takes a step only when the Program
\* Model is completely built, and the model does not change from then on,
\* whatever the interleaving of the detectors; the Report Emitter runs only
\* when every detector has walked the whole model, and takes all they found.
TwoPhaseBarrier ==
  [][/\ (\E d \in Detectors : engCursor'[d] > engCursor[d]) =>
          /\ engInput # <<>>
          /\ engModel = engInput
          /\ engModel' = engModel
     /\ engModel' # engModel =>
          /\ engRecords = <<>>
          /\ \A d \in Detectors : engCursor[d] = 1
     /\ (engOutput' # engOutput /\ engOutput' # Null) =>
          /\ \A d \in Detectors : engCursor[d] > Len(engModel)
          /\ engOutput'.findings = {r \in Range(engRecords) : IsFinding(r)}]_vars

\* a run over two methods has ended in which Feature Envy delivered first and
\* Message Chains delivered a Finding after it
TwoPhaseBarrierWitness ==
  /\ engPhase = "done"
  /\ Len(engModel) = 2
  /\ Len(engRecords) >= 2
  /\ IsFinding(engRecords[1])
  /\ engRecords[1].kind = "Feature Envy"
  /\ \E i \in 2..Len(engRecords) :
       IsFinding(engRecords[i]) /\ engRecords[i].kind = "Message Chains"

Init ==
  /\ StackInit /\ SquareInit /\ CustInit /\ OrderInit /\ PriceInit /\ MoveInit
  /\ MailInit /\ AddrInit /\ ChainInit /\ EngInit

SpecStack == Init /\ [][StackNext]_vars

SpecSquare == Init /\ [][SquareNext]_vars

SpecCust == Init /\ [][CustNext]_vars

SpecOrder == Init /\ [][OrderNext]_vars

SpecPrice == Init /\ [][PriceNext]_vars

SpecMove == Init /\ [][MoveNext]_vars

SpecMail == Init /\ [][MailNext]_vars

SpecAddr == Init /\ [][AddrNext]_vars

SpecChain == Init /\ [][ChainNext]_vars

SpecEng == Init /\ [][EngNext]_vars

====
